---- MODULE Spec2Model ----
(***************************************************************************)
(* Model of the persistence layer of cryptopump (src/mysql/mysql.go):      *)
(* pool construction (DBInit), the stored-procedure call pattern shared by *)
(* every operation, row decoding, and the lock-file liveness probe.        *)
(*                                                                         *)
(* Three specifications share the variables:                               *)
(*   SpecInit  the process from start-up through DBInit;                   *)
(*   Spec      one caller issuing operations on the configured pool;       *)
(*   SpecPool  NumCallers concurrent callers on the one shared pool.       *)
(***************************************************************************)
EXTENDS Integers, Sequences, FiniteSets, TLC

\* ---------------------------------------------------------------- bounds

\* Largest result set the store delivers to one call.
MaxRows == 2

\* Concurrent callers of SpecPool (one more than the pool's ceiling).
NumCallers == 8

\* ------------------------------------------------------------ pool state

VARIABLES
  env,        \* environment: variable name -> "unset" | "empty" | "set"
  ipc,        \* position of the start-up code in DBInit
  transport,  \* "none" | "tcp" | "socket": the Init*ConnectionPool entered
  reqIdx,     \* index of the next MustGetenv of that function
  opened,     \* sql.Open has been called
  dbPool,     \* the *sql.DB built so far (NoPool: nil)
  initErr,    \* err of DBInit
  deferred,   \* DBInit's deferred calls, in registration order
  initLog,    \* log entries emitted by DBInit
  exitStatus, \* -1 while the process runs, else its exit status
  dbRet       \* what the caller of DBInit received ("none" until it returns)

initVars == <<env, ipc, transport, reqIdx, opened, dbPool, initErr,
              deferred, initLog, exitStatus, dbRet>>

EnvVars == {"DB_TCP_HOST", "DB_PORT", "DB_USER", "DB_PASS", "DB_NAME",
            "INSTANCE_CONNECTION_NAME", "DB_SOCKET_DIR"}

EnvStates == {"unset", "empty", "set"}

NoPool == [maxIdle |-> -1, maxOpen |-> -1, maxLifetime |-> -1]

NilErr == [kind |-> "nil", id |-> 0]

OpenErrs == {[kind |-> "open", id |-> 1], [kind |-> "open", id |-> 2]}

\* os.Getenv: "" for an unset and for an empty variable.
Getenv(k) == IF env[k] = "set" THEN "v" ELSE ""

\* DBInit's choice of transport.
SelectTransport == IF Getenv("DB_TCP_HOST") # "" THEN "tcp" ELSE "socket"

SocketRequired ==
  <<"DB_USER", "DB_PASS", "INSTANCE_CONNECTION_NAME", "DB_NAME">>

TCPRequiredNoPort == <<"DB_USER", "DB_PASS", "DB_TCP_HOST", "DB_NAME">>

TCPRequired == <<"DB_USER", "DB_PASS", "DB_TCP_HOST", "DB_PORT", "DB_NAME">>

Required(t) == IF t = "tcp" THEN TCPRequired ELSE SocketRequired

\* functions.MustGetenv aborts the process on an absent value. Whether an
\* empty value counts as absent is not stated: both outcomes are allowed.
MustGetenvAborts(k) ==
  CASE env[k] = "unset" -> {TRUE}
    [] env[k] = "set"   -> {FALSE}
    [] OTHER            -> {TRUE, FALSE}

\* database/sql's settings of a freshly opened pool.
OpenedPool == [maxIdle |-> 2, maxOpen |-> 0, maxLifetime |-> 0]

MaxIdleConns == 5

MaxOpenConnsLoose == 7 + 1

MaxOpenConns == 7

\* The argument of SetConnMaxLifetime, a time.Duration: nanoseconds.
ConnMaxLifetime == 1800

NanosPerSecond == 1000000000

configureConnectionPool(p) ==
  [p EXCEPT !.maxIdle = MaxIdleConns,
            !.maxOpen = MaxOpenConns,
            !.maxLifetime = ConnMaxLifetime]

ConfiguredPool == configureConnectionPool(OpenedPool)

\* ------------------------------------------------------ caller variables

VARIABLES
  testMode,   \* flag.Lookup("test.v") != nil
  inUse,      \* connections of the pool checked out and not released
  idle,       \* open connections of the pool waiting to be reused
  pc,         \* position of the single caller of Spec
  op,         \* the operation it is in
  rows,       \* the result set the store delivers to this call
  pos,        \* rows consumed by rows.Next()
  cursor,     \* "none" | "open" | "closed"
  dest,       \* the scan targets of the operation
  orders,     \* GetThreadTransactionByThreadID's result sequence
  err,        \* the operation's err variable
  lastScan,   \* outcome of the last rows.Scan of this call
  qres,       \* what the procedure invocation produced (NilErr: success)
  ret,        \* the values returned to the caller
  locks,      \* ThreadIDs whose <ThreadID>.lock exists on disk
  stats       \* per call: begins, invocations, log entries, Close calls,
              \* releases of the cursor, os.Stat probes

callVars == <<testMode, inUse, idle, pc, op, rows, pos, cursor, dest, orders,
              err, lastScan, qres, ret, locks, stats>>

VARIABLES
  at          \* SpecPool: how many of the concurrent callers are at each
              \* position ("idle", "begin", "query", "rows")

poolVars == <<at>>

vars == <<initVars, callVars, poolVars>>

PoolPcs == {"idle", "begin", "query", "rows"}

ZeroStats == [begin |-> 0, invoke |-> 0, log |-> 0, close |-> 0,
              release |-> 0, probe |-> 0]

NoRet == [vals |-> <<>>, err |-> NilErr]

CallIdle ==
  /\ pc = "idle" /\ op = "none" /\ rows = <<>> /\ pos = 0
  /\ cursor = "none" /\ dest = <<>> /\ orders = <<>> /\ err = NilErr
  /\ lastScan = NilErr /\ qres = NilErr /\ ret = NoRet
  /\ stats = ZeroStats

PoolIdle == at = [l \in PoolPcs |-> IF l = "idle" THEN NumCallers ELSE 0]

\* ---------------------------------------------------------------- DBInit

InitStart ==
  /\ env \in [EnvVars -> EnvStates]
  /\ ipc = "start"
  /\ transport = "none"
  /\ reqIdx = 0
  /\ opened = FALSE
  /\ dbPool = NoPool
  /\ initErr = NilErr
  /\ deferred = <<>>
  /\ initLog = <<>>
  /\ exitStatus = -1
  /\ dbRet = "none"
  /\ testMode = FALSE /\ inUse = 0 /\ idle = 0 /\ locks = {}
  /\ CallIdle
  /\ PoolIdle

\* DBInit, line 29: the transport is chosen and its Init function entered.
DBInitSelect ==
  /\ ipc = "start"
  /\ transport' = SelectTransport
  /\ reqIdx' = 1
  /\ ipc' = "getenv"
  /\ UNCHANGED <<env, opened, dbPool, initErr, deferred, initLog,
                 exitStatus, dbRet>>
  /\ UNCHANGED <<callVars, poolVars>>

\* One functions.MustGetenv of Init*ConnectionPool: abort, or go on to the
\* next; after the last one the data-source string is built.
MustGetenvStep ==
  /\ ipc = "getenv"
  /\ reqIdx <= Len(Required(transport))
  /\ \E abort \in MustGetenvAborts(Required(transport)[reqIdx]) :
       IF abort
       THEN /\ ipc' = "aborted"
            /\ exitStatus' = 1
            /\ UNCHANGED reqIdx
       ELSE /\ ipc' = IF reqIdx = Len(Required(transport))
                      THEN "open" ELSE "getenv"
            /\ reqIdx' = reqIdx + 1
            /\ UNCHANGED exitStatus
  /\ UNCHANGED <<env, transport, opened, dbPool, initErr, deferred, initLog,
                 dbRet>>
  /\ UNCHANGED <<callVars, poolVars>>

\* sql.Open("mysql", dbURI) succeeds.
SqlOpenOk ==
  /\ ipc = "open"
  /\ opened' = TRUE
  /\ dbPool' = OpenedPool
  /\ ipc' = "configure"
  /\ UNCHANGED <<env, transport, reqIdx, initErr, deferred, initLog,
                 exitStatus, dbRet>>
  /\ UNCHANGED <<callVars, poolVars>>

\* sql.Open fails: Init*ConnectionPool returns (nil, error) to DBInit.
SqlOpenFail ==
  /\ ipc = "open"
  /\ opened' = TRUE
  /\ \E e \in OpenErrs : initErr' = e
  /\ dbPool' = NoPool
  /\ ipc' = "ret"
  /\ UNCHANGED <<env, transport, reqIdx, deferred, initLog, exitStatus,
                 dbRet>>
  /\ UNCHANGED <<callVars, poolVars>>

\* configureConnectionPool(dbPool); return dbPool, nil.
ConfigurePool ==
  /\ ipc = "configure"
  /\ dbPool' = configureConnectionPool(dbPool)
  /\ ipc' = "ret"
  /\ UNCHANGED <<env, transport, reqIdx, opened, initErr, deferred, initLog,
                 exitStatus, dbRet>>
  /\ UNCHANGED <<callVars, poolVars>>

DeferredOnErrorSwapped(e) ==
  IF e # NilErr THEN <<"log", "exit">> ELSE <<"log">>

\* DBInit's defer statements in the order they are registered: os.Exit(1)
\* in the error branch (lines 33, 41), then the logging closure (line 48).
DeferredOnError(e) ==
  IF e # NilErr THEN <<"exit", "log">> ELSE <<"log">>

\* DBInit, back from Init*ConnectionPool: the defers are registered and
\* "return db" is reached.
DBInitDefers ==
  /\ ipc = "ret"
  /\ deferred' = DeferredOnError(initErr)
  /\ ipc' = "defers"
  /\ UNCHANGED <<env, transport, reqIdx, opened, dbPool, initErr, initLog,
                 exitStatus, dbRet>>
  /\ UNCHANGED <<callVars, poolVars>>

\* The deferred calls run last-registered first.
RunDeferredLog ==
  /\ ipc = "defers"
  /\ deferred # <<>>
  /\ deferred[Len(deferred)] = "log"
  /\ initLog' = IF initErr # NilErr
                THEN Append(initLog, [fn |-> "DBInit", err |-> initErr])
                ELSE initLog
  /\ deferred' = SubSeq(deferred, 1, Len(deferred) - 1)
  /\ UNCHANGED <<env, ipc, transport, reqIdx, opened, dbPool, initErr,
                 exitStatus, dbRet>>
  /\ UNCHANGED <<callVars, poolVars>>

RunDeferredExit ==
  /\ ipc = "defers"
  /\ deferred # <<>>
  /\ deferred[Len(deferred)] = "exit"
  /\ exitStatus' = 1
  /\ ipc' = "exited"
  /\ UNCHANGED <<env, transport, reqIdx, opened, dbPool, initErr, deferred,
                 initLog, dbRet>>
  /\ UNCHANGED <<callVars, poolVars>>

\* No deferred call is left: the caller of DBInit receives db.
DBInitReturn ==
  /\ ipc = "defers"
  /\ deferred = <<>>
  /\ dbRet' = IF dbPool = NoPool THEN "nil" ELSE "pool"
  /\ ipc' = "returned"
  /\ UNCHANGED <<env, transport, reqIdx, opened, dbPool, initErr, deferred,
                 initLog, exitStatus>>
  /\ UNCHANGED <<callVars, poolVars>>

NextInit ==
  \/ DBInitSelect
  \/ MustGetenvStep
  \/ SqlOpenOk
  \/ SqlOpenFail
  \/ ConfigurePool
  \/ DBInitDefers
  \/ RunDeferredLog
  \/ RunDeferredExit
  \/ DBInitReturn

SpecInit == InitStart /\ [][NextInit]_vars

\* ------------------------------------------------------ DBInit: claims

\* The required values of each transport, as the specification lists them.
ClaimRequired(t) ==
  IF t = "tcp"
  THEN {"DB_USER", "DB_PASS", "DB_TCP_HOST", "DB_PORT", "DB_NAME"}
  ELSE {"DB_USER", "DB_PASS", "INSTANCE_CONNECTION_NAME", "DB_NAME"}

ClaimTransport ==
  IF env["DB_TCP_HOST"] = "set" THEN "tcp" ELSE "socket"

MissingRequired == \E k \in ClaimRequired(ClaimTransport) : env[k] = "unset"

\* C8: with a required value of the selected transport missing, the process
\* never gets as far as opening the pool: sql.Open is not called, no pool
\* exists, DBInit does not return, and the only way on is the abort.
C8_MissingConfigAbortsBeforeOpen ==
  MissingRequired =>
    /\ ~opened
    /\ dbPool = NoPool
    /\ dbRet = "none"
    /\ ipc \in {"start", "getenv", "aborted"}
    /\ (ipc = "aborted" => exitStatus # -1)

C8_Witness ==
  /\ MissingRequired
  /\ ipc = "aborted"
  /\ transport = "tcp"
  /\ env["DB_PORT"] = "unset"
  /\ reqIdx = 4

OpenFailed == opened /\ initErr # NilErr

\* C9: when opening the pool fails, DBInit emits exactly one log entry, which
\* carries the error, before the process exits with status 1, and DBInit
\* never returns to its caller.
C9_OpenFailureLogsThenExits ==
  OpenFailed =>
    /\ Len(initLog) <= 1
    /\ \A i \in 1 .. Len(initLog) : initLog[i].err = initErr
    /\ (ipc = "exited" => Len(initLog) = 1 /\ exitStatus = 1)
    /\ (exitStatus # -1 => ipc = "exited")
    /\ ipc # "returned"
    /\ dbRet = "none"

C9_Witness ==
  /\ OpenFailed
  /\ ipc = "exited"
  /\ exitStatus = 1
  /\ Len(initLog) = 1

\* C10: a pool returned by a successful initialization has 5 idle
\* connections at most, 7 open connections at most, and a maximum connection
\* lifetime of 1800 seconds.
C10_PoolSettings ==
  dbRet = "pool" =>
    /\ dbPool.maxIdle = 5
    /\ dbPool.maxOpen = 7
    /\ dbPool.maxLifetime % NanosPerSecond = 0
    /\ dbPool.maxLifetime \div NanosPerSecond = 1800

\* ------------------------------------------------------------ operations

NoRowOps ==
  {"SaveOrder", "UpdateOrder", "UpdateSession", "UpdateGlobal", "SaveGlobal",
   "SaveSession", "DeleteSession", "SaveThreadTransaction",
   "DeleteThreadTransactionByOrderID"}

\* Operations whose row loop is "err = rows.Scan(targets...)" and nothing
\* else: the last row decoded wins.
LastRowOps ==
  {"GetThreadTransactionCount", "GetLastOrderTransactionPrice",
   "GetLastOrderTransactionSide", "GetOrderTransactionSideLastTwo",
   "GetOrderSymbol", "GetOrderTransactionPending",
   "GetThreadTransactionByPrice", "GetThreadTransactionByPriceHigher",
   "GetThreadLastTransaction", "GetOrderByOrderID",
   "GetThreadTransactiontUpmarketPriceCount", "GetOrderTransactionCount",
   "GetGlobal", "GetThreadCount", "GetProfitByThreadID", "GetProfit",
   "GetThreadAmount"}

RowOps ==
  LastRowOps \cup {"GetSessionStatus", "GetThreadTransactionDistinct",
                   "GetThreadTransactionByThreadID"}

Ops == NoRowOps \cup RowOps

\* The Go types of the scan targets of each operation, in Scan's order.
\* "nullfloat" is sql.NullFloat64, "text" a string that holds a number.
Cols(o) ==
  CASE o \in {"GetThreadTransactionCount", "GetThreadCount",
              "GetThreadTransactiontUpmarketPriceCount"} -> <<"int">>
    [] o \in {"GetLastOrderTransactionPrice", "GetOrderTransactionCount"}
         -> <<"float">>
    [] o \in {"GetLastOrderTransactionSide", "GetOrderSymbol"} -> <<"string">>
    [] o = "GetOrderTransactionSideLastTwo" -> <<"string", "string">>
    [] o = "GetOrderTransactionPending" -> <<"int", "string">>
    [] o \in {"GetThreadTransactionByPrice",
              "GetThreadTransactionByPriceHigher",
              "GetThreadLastTransaction"}
         -> <<"float", "int", "float", "float", "int">>
    [] o = "GetOrderByOrderID" -> <<"int", "float", "float", "float", "int">>
    [] o = "GetGlobal" -> <<"float", "float", "float", "int">>
    [] o = "GetProfitByThreadID" -> <<"nullfloat", "nullfloat">>
    [] o = "GetProfit" -> <<"float", "float", "float">>
    [] o = "GetThreadAmount" -> <<"nullfloat">>
    [] o = "GetSessionStatus" -> <<"string", "bool">>
    [] o = "GetThreadTransactionDistinct" -> <<"string", "string">>
    [] o = "GetThreadTransactionByThreadID"
         -> <<"int", "text", "text", "text">>
    [] OTHER -> <<>>

\* Go's zero value of a scan target.
Zero(t) ==
  CASE t \in {"int", "float", "nullfloat"} -> 0
    [] t = "bool" -> FALSE
    [] OTHER -> ""

ZeroRow(ts) == [j \in 1 .. Len(ts) |-> Zero(ts[j])]

\* ------------------------------------------------- what the store delivers

\* Identifiers and texts of the store's rows, by row number.
ThreadIDs == <<"T1", "T2", "T3", "T4">>

SessionIDs == <<"S1", "S2", "S3", "S4">>

Words == <<"BUY", "SELL", "BUY", "SELL">>

Texts == <<"12.34567", "100.12345", "0.005", "7">>

\* The values column j of row i may hold. Floats are fixed-point numbers in
\* units of 10^-5.
ValuesOf(o, t, i, j) ==
  CASE t = "bool" -> {TRUE, FALSE}
    [] t = "int" -> {10 * i + j}
    [] t \in {"float", "nullfloat"} -> {1234567 * i + j}
    [] t = "text" -> {Texts[((i + j) % Len(Texts)) + 1]}
    [] t = "string" /\ o \in {"GetSessionStatus",
                               "GetThreadTransactionDistinct"}
         -> {IF j = 1 THEN ThreadIDs[i] ELSE SessionIDs[i]}
    [] OTHER -> {Words[((i + j) % Len(Words)) + 1]}

\* A cell is a value, a NULL, or (for the null-safe targets, which accept a
\* NULL) a value of a type the target cannot take.
CellsOf(o, t, i, j) ==
  {[k |-> "val", v |-> x] : x \in ValuesOf(o, t, i, j)}
    \cup {[k |-> "null", v |-> Zero(t)]}
    \cup (IF t = "nullfloat" THEN {[k |-> "bad", v |-> Zero(t)]} ELSE {})

\* convertAssign fails on this cell for a target of type t.
Fails(t, cell) ==
  \/ cell.k = "bad"
  \/ cell.k = "null" /\ t # "nullfloat"

\* The rows of number i: Scan stops at the first cell it cannot decode, so
\* rows with one such cell at most stand for all.
RECURSIVE RowsFrom(_, _, _, _)
RowsFrom(o, ts, i, j) ==
  IF j > Len(ts) THEN {<<>>}
  ELSE LET rest == RowsFrom(o, ts, i, j + 1)
       IN  {<<c>> \o r : c \in CellsOf(o, ts[j], i, j), r \in rest}

FailCount(ts, r) == Cardinality({j \in 1 .. Len(ts) : Fails(ts[j], r[j])})

RowDomain(o, i) ==
  {r \in RowsFrom(o, Cols(o), i, 1) : FailCount(Cols(o), r) <= 1}

RECURSIVE RowSetsOfLen(_, _)
RowSetsOfLen(o, n) ==
  IF n = 0 THEN {<<>>}
  ELSE {rs \o <<r>> : rs \in RowSetsOfLen(o, n - 1), r \in RowDomain(o, n)}

\* The result sets an invocation of o may deliver.
RowSets(o) ==
  IF o \in NoRowOps THEN {<<>>}
  ELSE UNION {RowSetsOfLen(o, n) : n \in 0 .. MaxRows}

QueryErrs == {[kind |-> "query", id |-> 1], [kind |-> "query", id |-> 2]}

ScanErr(i) == [kind |-> "scan", id |-> i]

\* ------------------------------------------------------------- decoding

FirstFail(ts, r) ==
  LET bad == {j \in 1 .. Len(ts) : Fails(ts[j], r[j])}
  IN  IF bad = {} THEN 0 ELSE CHOOSE j \in bad : \A m \in bad : j <= m

\* What a cell decodes to: a NULL read through sql.NullFloat64 gives 0.
Decode(t, cell) == IF cell.k = "val" THEN cell.v ELSE Zero(t)

\* rows.Scan of row number i into the targets d: the columns before the
\* first failing one are assigned, the others keep what they held.
Scan(ts, r, i, d) ==
  LET f == FirstFail(ts, r)
  IN  [d   |-> [j \in 1 .. Len(ts) |->
                  IF f = 0 \/ j < f THEN Decode(ts[j], r[j]) ELSE d[j]],
       err |-> IF f = 0 THEN NilErr ELSE ScanErr(i)]

RoundDown(u, m) == (u \div m) * m

\* math.Round(x * 10^n) / 10^n on the fixed-point numbers: to the nearest
\* multiple of m, halves away from zero.
RoundTo(u, m) ==
  IF u >= 0 THEN ((u + m \div 2) \div m) * m
  ELSE -((((-u) + m \div 2) \div m) * m)

\* functions.StrToFloat64 on the texts of the store; "" is what a target
\* holds that Scan did not assign.
StrToFloat64(s) ==
  CASE s = "12.34567"  -> 1234567
    [] s = "100.12345" -> 10012345
    [] s = "0.005"     -> 500
    [] s = "7"         -> 700000
    [] OTHER           -> 0

ScalePctOffset(p) == p + 100

\* "percentage * 100" of GetProfit and GetProfitByThreadID.
ScalePct(p) == p * 100

InitialDestSentinel(o) ==
  CASE o = "GetSessionStatus" -> <<"">>
    [] o = "GetThreadTransactionByThreadID" -> <<>>
    [] OTHER -> [j \in 1 .. Len(Cols(o)) |->
                   IF Cols(o)[j] = "int" THEN -1 ELSE Zero(Cols(o)[j])]

\* The scan targets as declared: named results and locals start at Go's
\* zero values. GetSessionStatus keeps threadID across rows (status is
\* declared inside the loop), GetThreadTransactionByThreadID keeps none.
InitialDest(o) ==
  CASE o = "GetSessionStatus" -> <<"">>
    [] o = "GetThreadTransactionByThreadID" -> <<>>
    [] OTHER -> ZeroRow(Cols(o))

\* The values an operation hands back from its targets.
Finish(o, d) ==
  CASE o = "GetProfit" -> <<d[1], d[2], ScalePct(d[3])>>
    [] o = "GetProfitByThreadID" -> <<d[1], ScalePct(d[2])>>
    [] o = "GetThreadAmount" -> <<RoundTo(d[1], 1000)>>
    [] OTHER -> d

\* The literal zero values of the error branch's return statement.
ZeroVals(o) ==
  CASE o \in NoRowOps \/ o = "GetThreadTransactionByThreadID" -> <<>>
    [] o = "GetSessionStatus" -> <<"">>
    [] OTHER -> ZeroRow(Cols(o))

QueryFailReturnSwallowed(o, e) == [vals |-> ZeroVals(o), err |-> NilErr]

\* The return statement of the error branch of an invocation: zero values
\* and the error of the invocation.
QueryFailReturn(o, e) == [vals |-> ZeroVals(o), err |-> e]

\* The error of the return statement after the row loop: GetSessionStatus
\* and the operations without rows return a literal nil.
ReturnErr(o, e) ==
  IF o = "GetSessionStatus" \/ o \in NoRowOps THEN NilErr ELSE e

KeepCandidate(d) == d

\* GetThreadTransactionDistinct, lock file present: the candidate is reset.
ResetCandidate(d) == <<"", "">>

\* os.Stat(threadID + ".lock") returns an error.
StatFails(tid) == tid \notin locks

LockNames == {""} \cup {ThreadIDs[i] : i \in 1 .. MaxRows}

\* database/sql hands out a connection without waiting: an idle one, or a
\* new one while fewer than maxOpen are open (no limit when maxOpen <= 0).
HasFreeConn ==
  \/ idle > 0
  \/ dbPool.maxOpen <= 0
  \/ inUse + idle < dbPool.maxOpen

\* A connection is checked out: an idle one if there is one, else a new one.
Acquire ==
  /\ HasFreeConn
  /\ inUse' = inUse + 1
  /\ idle' = IF idle > 0 THEN idle - 1 ELSE idle

\* A connection is given back: kept idle if fewer than maxIdle are, closed
\* otherwise or when it has outlived maxLifetime.
Release ==
  /\ inUse' = inUse - 1
  /\ idle' \in {idle} \cup (IF idle < dbPool.maxIdle THEN {idle + 1} ELSE {})

\* The state DBInit leaves on success.
Constructed ==
  /\ env = [k \in EnvVars |-> "set"]
  /\ ipc = "returned"
  /\ transport = "tcp"
  /\ reqIdx = Len(TCPRequired) + 1
  /\ opened = TRUE
  /\ dbPool = ConfiguredPool
  /\ initErr = NilErr
  /\ deferred = <<>>
  /\ initLog = <<>>
  /\ exitStatus = -1
  /\ dbRet = "pool"

Init ==
  /\ Constructed
  /\ testMode \in BOOLEAN
  /\ inUse = 0
  /\ idle = 0
  /\ locks = {}
  /\ CallIdle
  /\ PoolIdle

EntryStepNoBegin(t) == "query"

\* "if flag.Lookup("test.v") != nil { sessionData.Db.Begin() }", the first
\* statement of every operation.
EntryStep(t) == IF t THEN "begin" ELSE "query"

\* The caller enters operation o; the lock files are as the call finds them.
Call(o) ==
  /\ pc \in {"idle", "returned"}
  /\ op' = o
  /\ pc' = EntryStep(testMode)
  /\ rows' = <<>> /\ pos' = 0 /\ cursor' = "none"
  /\ dest' = InitialDest(o)
  /\ orders' = <<>>
  /\ err' = NilErr /\ lastScan' = NilErr /\ qres' = NilErr
  /\ ret' = NoRet
  /\ stats' = ZeroStats
  /\ locks' \in IF o = "GetThreadTransactionDistinct"
                THEN SUBSET LockNames ELSE {{}}
  /\ UNCHANGED <<testMode, inUse, idle>>
  /\ UNCHANGED <<initVars, poolVars>>

\* sessionData.Db.Begin() of the test mode: waits for a connection; the
\* transaction and its error are dropped, the connection stays checked out.
Begin ==
  /\ pc = "begin"
  /\ \/ Acquire
     \/ HasFreeConn /\ UNCHANGED <<inUse, idle>>
  /\ stats' = [stats EXCEPT !.begin = @ + 1]
  /\ pc' = "query"
  /\ UNCHANGED <<testMode, op, rows, pos, cursor, dest, orders, err,
                 lastScan, qres, ret, locks>>
  /\ UNCHANGED <<initVars, poolVars>>

\* Db.Query returns an error: one log entry, the error branch returns.
QueryFail ==
  /\ pc = "query"
  /\ HasFreeConn
  /\ \E e \in QueryErrs :
       /\ qres' = e
       /\ err' = e
       /\ ret' = QueryFailReturn(op, e)
  /\ stats' = [stats EXCEPT !.invoke = @ + 1, !.log = @ + 1]
  /\ pc' = "returned"
  /\ UNCHANGED <<testMode, inUse, idle, op, rows, pos, cursor, dest, orders,
                 lastScan, locks>>
  /\ UNCHANGED <<initVars, poolVars>>

\* Db.Query succeeds: the cursor holds a connection of the pool.
QueryOk ==
  /\ pc = "query"
  /\ Acquire
  /\ rows' \in RowSets(op)
  /\ cursor' = "open"
  /\ stats' = [stats EXCEPT !.invoke = @ + 1]
  /\ pc' = IF op \in NoRowOps THEN "after" ELSE "loop"
  /\ UNCHANGED <<testMode, op, pos, dest, orders, err, lastScan, qres, ret,
                 locks>>
  /\ UNCHANGED <<initVars, poolVars>>

\* One turn of "for rows.Next() { err = rows.Scan(...) }".
NextRowLast ==
  /\ pc = "loop"
  /\ op \in LastRowOps
  /\ pos < Len(rows)
  /\ LET s == Scan(Cols(op), rows[pos + 1], pos + 1, dest)
     IN  /\ dest' = s.d
         /\ err' = s.err
         /\ lastScan' = s.err
  /\ pos' = pos + 1
  /\ UNCHANGED <<testMode, inUse, idle, pc, op, rows, cursor, orders, qres, ret,
                 locks, stats>>
  /\ UNCHANGED <<initVars, poolVars>>

StatusNeverReturns(status) == FALSE

\* "if status { return }" inside GetSessionStatus's loop.
StatusReturns(status) == status

\* One turn of GetSessionStatus's loop: on a true status the function
\* returns its named results at once, before "defer rows.Close()".
NextRowSessionStatus ==
  /\ pc = "loop"
  /\ op = "GetSessionStatus"
  /\ pos < Len(rows)
  /\ LET s == Scan(Cols(op), rows[pos + 1], pos + 1, <<dest[1], FALSE>>)
     IN  /\ dest' = <<s.d[1]>>
         /\ err' = s.err
         /\ lastScan' = s.err
         /\ IF StatusReturns(s.d[2])
            THEN /\ pc' = "returned"
                 /\ ret' = [vals |-> <<s.d[1]>>, err |-> s.err]
            ELSE UNCHANGED <<pc, ret>>
  /\ pos' = pos + 1
  /\ UNCHANGED <<testMode, inUse, idle, op, rows, cursor, orders, qres, locks,
                 stats>>
  /\ UNCHANGED <<initVars, poolVars>>

\* One turn of GetThreadTransactionDistinct's loop: scan, probe the lock
\* file of threadID, break if os.Stat fails, else reset and go on.
NextRowDistinct ==
  /\ pc = "loop"
  /\ op = "GetThreadTransactionDistinct"
  /\ pos < Len(rows)
  /\ LET s == Scan(Cols(op), rows[pos + 1], pos + 1, dest)
     IN  /\ err' = s.err
         /\ lastScan' = s.err
         /\ IF StatFails(s.d[1])
            THEN /\ dest' = s.d
                 /\ pc' = "after"
            ELSE /\ dest' = ResetCandidate(s.d)
                 /\ UNCHANGED pc
  /\ pos' = pos + 1
  /\ stats' = [stats EXCEPT !.probe = @ + 1]
  /\ UNCHANGED <<testMode, inUse, idle, op, rows, cursor, orders, qres, ret,
                 locks>>
  /\ UNCHANGED <<initVars, poolVars>>

PrependOrder(os, o) == <<o>> \o os

\* "orders = append(orders, order)": the order is copied to the end.
AppendOrder(os, o) == Append(os, o)

\* One turn of GetThreadTransactionByThreadID's loop: fresh locals, scan,
\* parse and round, append.
NextRowByThreadID ==
  /\ pc = "loop"
  /\ op = "GetThreadTransactionByThreadID"
  /\ pos < Len(rows)
  /\ LET s == Scan(Cols(op), rows[pos + 1], pos + 1, ZeroRow(Cols(op)))
         order == [OrderID |-> s.d[1],
                   ExecutedQuantity |-> StrToFloat64(s.d[4]),
                   CumulativeQuoteQuantity |->
                     RoundTo(StrToFloat64(s.d[2]), 1000),
                   Price |-> RoundTo(StrToFloat64(s.d[3]), 100)]
     IN  /\ err' = s.err
         /\ lastScan' = s.err
         /\ orders' = AppendOrder(orders, order)
  /\ pos' = pos + 1
  /\ UNCHANGED <<testMode, inUse, idle, pc, op, rows, cursor, dest, qres, ret,
                 locks, stats>>
  /\ UNCHANGED <<initVars, poolVars>>

\* rows.Next() finds no further row: it closes the cursor and returns false.
EndRows ==
  /\ pc = "loop"
  /\ pos = Len(rows)
  /\ cursor' = "closed"
  /\ Release
  /\ stats' = [stats EXCEPT !.release = @ + 1]
  /\ pc' = "after"
  /\ UNCHANGED <<testMode, op, rows, pos, dest, orders, err, lastScan,
                 qres, ret, locks>>
  /\ UNCHANGED <<initVars, poolVars>>

\* "defer rows.Close()" and the return statement after it: the results are
\* evaluated, then Close runs (a second Close of a cursor does nothing).
ReturnAfterLoop ==
  /\ pc = "after"
  /\ ret' = [vals |-> CASE op \in NoRowOps -> <<>>
                        [] op = "GetThreadTransactionByThreadID" -> orders
                        [] OTHER -> Finish(op, dest),
             err  |-> ReturnErr(op, err)]
  /\ stats' = [stats EXCEPT !.close = @ + 1,
                            !.release = IF cursor = "open" THEN @ + 1 ELSE @]
  /\ IF cursor = "open" THEN Release ELSE UNCHANGED <<inUse, idle>>
  /\ cursor' = "closed"
  /\ pc' = "returned"
  /\ UNCHANGED <<testMode, op, rows, pos, dest, orders, err, lastScan,
                 qres, locks>>
  /\ UNCHANGED <<initVars, poolVars>>

Next ==
  \/ \E o \in Ops : Call(o)
  \/ Begin
  \/ QueryFail
  \/ QueryOk
  \/ NextRowLast
  \/ NextRowSessionStatus
  \/ NextRowDistinct
  \/ NextRowByThreadID
  \/ EndRows
  \/ ReturnAfterLoop

Spec == Init /\ [][Next]_vars

\* ------------------------------------------------- concurrent callers

InitPool ==
  /\ Constructed
  /\ testMode \in BOOLEAN
  /\ inUse = 0
  /\ idle = 0
  /\ locks = {}
  /\ CallIdle
  /\ PoolIdle

callerVars == <<pc, op, rows, pos, cursor, dest, orders, err, lastScan,
                qres, ret, locks, stats>>

\* One caller goes from position a to position b.
Move(a, b) ==
  /\ at[a] > 0
  /\ at' = [at EXCEPT ![a] = @ - 1, ![b] = @ + 1]

\* A caller enters an operation.
PCall ==
  /\ Move("idle", EntryStep(testMode))
  /\ UNCHANGED <<testMode, inUse, idle>>
  /\ UNCHANGED <<initVars, callerVars>>

\* Its Db.Begin() of the test mode: waits while no connection is to be had.
PBegin ==
  /\ \/ Acquire
     \/ HasFreeConn /\ UNCHANGED <<inUse, idle>>
  /\ Move("begin", "query")
  /\ UNCHANGED testMode
  /\ UNCHANGED <<initVars, callerVars>>

\* Its Db.Query fails: the error branch returns the error.
PQueryFail ==
  /\ HasFreeConn
  /\ Move("query", "idle")
  /\ UNCHANGED <<testMode, inUse, idle>>
  /\ UNCHANGED <<initVars, callerVars>>

\* Its Db.Query succeeds: the cursor holds a connection.
PQueryOk ==
  /\ Acquire
  /\ Move("query", "rows")
  /\ UNCHANGED testMode
  /\ UNCHANGED <<initVars, callerVars>>

\* It returns with the cursor closed (by rows.Next() or the deferred Close).
PReturnClosed ==
  /\ Release
  /\ Move("rows", "idle")
  /\ UNCHANGED testMode
  /\ UNCHANGED <<initVars, callerVars>>

\* It returns from inside GetSessionStatus's loop: the cursor stays open.
PReturnOpen ==
  /\ Move("rows", "idle")
  /\ UNCHANGED <<testMode, inUse, idle>>
  /\ UNCHANGED <<initVars, callerVars>>

NextPool ==
  \/ PCall
  \/ PBegin
  \/ PQueryFail
  \/ PQueryOk
  \/ PReturnClosed
  \/ PReturnOpen

SpecPool == InitPool /\ [][NextPool]_vars

\* C2: with any number of concurrent callers the pool never has more than 7
\* connections open, and while 7 are in use no waiting caller gets on: none
\* leaves its Db.Begin or Db.Query, with an error or otherwise.
C2_PoolCeilingBlocks ==
  /\ [](inUse + idle <= 7)
  /\ [][inUse = 7 => /\ at'["begin"] >= at["begin"]
                     /\ at'["query"] >= at["query"]]_vars

C2_Witness ==
  /\ at["rows"] = 7
  /\ inUse = 7
  /\ at["query"] = 1

\* --------------------------------------------------- operations: claims

Returned == pc = "returned"

InvocationOk == stats.invoke = 1 /\ qres = NilErr

\* C1: on every exit path of every operation, a failed invocation leaves no
\* cursor and no release is attempted, and the cursor of a successful one has
\* been released exactly once when the operation returns.
C1_CursorReleasedOnce ==
  Returned =>
    IF qres # NilErr
    THEN cursor = "none" /\ stats.close = 0 /\ stats.release = 0
    ELSE cursor = "closed" /\ stats.release = 1

\* The rows are pairs of identifiers: no cell is NULL.
RowsArePairs ==
  \A i \in 1 .. Len(rows) : \A j \in 1 .. 2 : rows[i][j].k = "val"

\* The rows whose lock file <ThreadID>.lock does not exist.
Unlocked == {i \in 1 .. Len(rows) : rows[i][1].v \notin locks}

FirstUnlocked == CHOOSE i \in Unlocked : \A m \in Unlocked : i <= m

AggregateOps == {"GetProfit", "GetProfitByThreadID", "GetThreadAmount"}

\* C4: when the row an aggregate operation reports holds NULL scalars (and
\* otherwise numbers), each of them reaches the caller as 0.0 and the error
\* returned is nil.
C4_NullAggregateIsZero ==
  (/\ Returned
   /\ op \in AggregateOps
   /\ InvocationOk
   /\ pos >= 1
   /\ \A j \in 1 .. Len(rows[pos]) : rows[pos][j].k \in {"val", "null"}) =>
    \A j \in 1 .. Len(rows[pos]) :
      rows[pos][j].k = "null" => ret.vals[j] = 0 /\ ret.err = NilErr

\* C5: the procedure is invoked once per call and never again; a failed
\* invocation is logged exactly once and its error is the error returned; a
\* successful one is not logged.
C5_InvocationErrorOnceUnmodified ==
  /\ stats.invoke <= 1
  /\ stats.log <= 1
  /\ Returned =>
       /\ stats.invoke = 1
       /\ qres # NilErr => stats.log = 1 /\ ret.err = qres
       /\ qres = NilErr => stats.log = 0

C5_Witness ==
  /\ Returned
  /\ op = "SaveOrder"
  /\ qres = [kind |-> "query", id |-> 2]
  /\ ret.err = qres
  /\ stats.log = 1

\* C6: the error a row-consuming operation returns is the decode outcome of
\* the last row it processed.
C6_LastDecodeErrorReturned ==
  (Returned /\ InvocationOk /\ pos >= 1) => ret.err = lastScan

\* The zero values of the results of an operation.
ClaimZero(o) ==
  CASE o = "GetSessionStatus" -> <<"">>
    [] o = "GetThreadTransactionByThreadID" -> <<>>
    [] OTHER -> [j \in 1 .. Len(Cols(o)) |-> Zero(Cols(o)[j])]

\* C7: an invocation that succeeds and delivers no row gives every result
\* its zero value and a nil error.
C7_NoRowsGivesZeroValues ==
  (Returned /\ op \in RowOps /\ InvocationOk /\ rows = <<>>) =>
    ret.vals = ClaimZero(op) /\ ret.err = NilErr

C7_Witness ==
  /\ Returned
  /\ op = "GetOrderByOrderID"
  /\ InvocationOk
  /\ rows = <<>>
  /\ ret.vals = <<0, 0, 0, 0, 0>>
  /\ ret.err = NilErr

\* C11: in test mode every operation issues exactly one transaction-begin,
\* before its procedure invocation, and never ends the transaction (the only
\* connection an operation gives back is its cursor's); outside test mode no
\* transaction-begin is issued.
C11_TestModeBeginOnceBeforeInvoke ==
  /\ [](IF testMode
        THEN /\ stats.begin <= 1
             /\ stats.invoke <= stats.begin
             /\ (Returned => stats.begin = 1)
        ELSE stats.begin = 0)
  /\ [][pc = "begin" => inUse' >= inUse /\ stats'.invoke = 0]_vars
  /\ [][inUse' < inUse =>
          /\ cursor = "open"
          /\ cursor' = "closed"
          /\ inUse' = inUse - 1]_vars

C11_Witness ==
  /\ testMode
  /\ Returned
  /\ op = "GetThreadAmount"
  /\ stats.begin = 1
  /\ stats.invoke = 1
  /\ inUse = 1

ProfitOps == {"GetProfit", "GetProfitByThreadID"}

\* The row the call decoded last holds a value in every column.
LastRowDecoded ==
  /\ pos >= 1
  /\ \A j \in 1 .. Len(rows[pos]) : rows[pos][j].k = "val"

\* C12: the percentage GetProfit and GetProfitByThreadID return is the
\* fraction of the store times 100 (0.0532 gives 5.32), and the other figures
\* of the row are returned as the store delivered them.
C12_PercentageTimes100 ==
  /\ ScalePct(5320) = 532000
  /\ (Returned /\ op \in ProfitOps /\ InvocationOk /\ LastRowDecoded) =>
       LET n == Len(rows[pos]) IN
         /\ Len(ret.vals) = n
         /\ ret.vals[n] = rows[pos][n].v * 100
         /\ \A j \in 1 .. n - 1 : ret.vals[j] = rows[pos][j].v

C12_Witness ==
  /\ Returned
  /\ op = "GetProfit"
  /\ InvocationOk
  /\ LastRowDecoded
  /\ pos = 2
  /\ ret.vals = <<2469135, 2469136, 246913700>>

ByThreadID ==
  /\ Returned
  /\ op = "GetThreadTransactionByThreadID"
  /\ InvocationOk

\* Row i holds a value in every column.
RowDecoded(i) == \A j \in 1 .. Len(rows[i]) : rows[i][j].k = "val"

\* v is x rounded to a multiple of m, halves upwards (x >= 0).
IsRounded(v, x, m) == v % m = 0 /\ 2 * (v - x) <= m /\ 2 * (x - v) < m

\* C13: in every order of GetThreadTransactionByThreadID the cumulative quote
\* quantity is the parsed text rounded to two decimals ("12.34567" gives
\* 12.35), the price the parsed text rounded to three ("100.12345" gives
\* 100.123), and the executed quantity the parsed text, not rounded.
C13_OrderFiguresRounded ==
  ByThreadID =>
    \A i \in 1 .. Len(ret.vals) :
      (i <= Len(rows) /\ RowDecoded(i)) =>
        LET r == rows[i]
            o == ret.vals[i]
        IN  /\ IsRounded(o.CumulativeQuoteQuantity, StrToFloat64(r[2].v), 1000)
            /\ IsRounded(o.Price, StrToFloat64(r[3].v), 100)
            /\ o.ExecutedQuantity = StrToFloat64(r[4].v)
            /\ (r[2].v = "12.34567" => o.CumulativeQuoteQuantity = 1235000)
            /\ (r[3].v = "100.12345" => o.Price = 10012300)
            /\ (r[4].v = "100.12345" => o.ExecutedQuantity = 10012345)

C13_Witness ==
  /\ ByThreadID
  /\ Len(rows) = 2
  /\ RowDecoded(1)
  /\ RowDecoded(2)
  /\ rows[2][2].v = "12.34567"
  /\ rows[2][3].v = "100.12345"
  /\ ret.vals[2].CumulativeQuoteQuantity = 1235000
  /\ ret.vals[2].Price = 10012300
  /\ ret.vals[1].ExecutedQuantity = 10012345

\* C14: GetThreadTransactionByThreadID returns one order per row, in the
\* order of arrival: the i-th order carries the order identifier of the i-th
\* row, and an order once appended is not changed by the rows after it.
C14_OneOrderPerRowInOrder ==
  /\ [](ByThreadID =>
          /\ Len(ret.vals) = Len(rows)
          /\ \A i \in 1 .. Len(rows) :
               rows[i][1].k = "val" => ret.vals[i].OrderID = rows[i][1].v)
  /\ [][(op = "GetThreadTransactionByThreadID" /\ pc = "loop") =>
          /\ Len(orders') >= Len(orders)
          /\ SubSeq(orders', 1, Len(orders)) = orders]_vars
  /\ [][(op = "GetThreadTransactionByThreadID" /\ pc = "after") =>
          ret'.vals = orders]_vars

C14_Witness ==
  /\ ByThreadID
  /\ Len(rows) = 2
  /\ rows[1][1].k = "val"
  /\ rows[2][1].k = "val"
  /\ Len(ret.vals) = 2
  /\ ret.vals[1].OrderID = 11
  /\ ret.vals[2].OrderID = 21

SessionStatus ==
  /\ Returned
  /\ op = "GetSessionStatus"
  /\ InvocationOk
  /\ RowsArePairs

\* The rows whose status flag is true.
StatusTrue == {i \in 1 .. Len(rows) : rows[i][2].v}

FirstStatusTrue == CHOOSE i \in StatusTrue : \A m \in StatusTrue : i <= m

\* C15: when some row of GetSessionStatus has the status flag true, the
\* ThreadID returned is that of the first such row and no row after it is
\* consumed.
C15_FirstStatusTrueReturned ==
  (SessionStatus /\ StatusTrue # {}) =>
    /\ ret.vals = <<rows[FirstStatusTrue][1].v>>
    /\ pos = FirstStatusTrue

C15_Witness ==
  /\ SessionStatus
  /\ Len(rows) = 2
  /\ StatusTrue = {1, 2}
  /\ ret.vals = <<"T1">>
  /\ pos = 1

\* C16: GetSessionStatus returns a non-empty ThreadID only when some row has
\* the status flag true; when its rows have none, the ThreadID is empty.
C16_ThreadIDOnlyWithStatusTrue ==
  (SessionStatus /\ StatusTrue = {}) => ret.vals = <<"">>

\* C17: no operation keeps a connection of the pool once it has returned:
\* when no caller is inside an operation, no connection is in use.
C17_NoConnectionKeptAfterReturn ==
  at["idle"] = NumCallers => inUse = 0

====
